---- MODULE Spec2Model ----
(***************************************************************************)
(* State-recording engine of ARgorithmToolkit: State, StateSet, Variable   *)
(* (utils.py) and StringState, StringIterator, String (string.py).         *)
(*                                                                         *)
(* Python values are records [kind, text, num, parts]; text is a sequence  *)
(* of characters.  An object lives at an address; id(obj) is that address  *)
(* and is unique among the objects alive at the same time only.            *)
(***************************************************************************)
EXTENDS Integers, Sequences, FiniteSets, TLC

VARIABLES algo, heap, iters, lastCall, calls, limit

vars == <<algo, heap, iters, lastCall, calls, limit>>

\* ------------------------------------------------------------------ bounds
MaxAddr == 2
MaxIters == 2
MaxCallsVar == 4
MaxCallsStr == 3
MaxCallsIter == 6
MaxCallsAll == 3

Addrs == 1..MaxAddr
IterIds == 1..MaxIters

\* ----------------------------------------------------------- python values
PyNone == [kind |-> "NoneType", text |-> <<>>, num |-> 0, parts |-> <<>>]
PyStr(t) == [kind |-> "str", text |-> t, num |-> 0, parts |-> <<>>]
PyInt(n) == [kind |-> "int", text |-> <<>>, num |-> n, parts |-> <<>>]
PyBool(b) == [kind |-> "bool", text |-> <<>>, num |-> IF b THEN 1 ELSE 0, parts |-> <<>>]
PySlice(start, stop, step) == [kind |-> "slice", text |-> <<>>, num |-> 0, parts |-> <<start, stop, step>>]
\* a reference to the object at address a, of class cls
PyRef(cls, a) == [kind |-> cls, text |-> <<>>, num |-> a, parts |-> <<>>]
\* the arguments of a call that takes several
PyArgs(args) == [kind |-> "args", text |-> <<>>, num |-> 0, parts |-> args]
\* a State the host built itself: State(state_type="comment", state_def=None, comments=text)
PyState(text) == [kind |-> "State", text |-> text, num |-> 0, parts |-> <<>>]
\* the one StateSet of the run, conventionally called algo
AlgoRef == [kind |-> "StateSet", text |-> <<>>, num |-> 0, parts |-> <<>>]

DigitChars == <<"0", "1", "2", "3", "4", "5", "6", "7", "8", "9">>

RECURSIVE NatToText(_)
NatToText(n) ==
    IF n < 10 THEN <<DigitChars[n + 1]>>
    ELSE NatToText(n \div 10) \o <<DigitChars[(n % 10) + 1]>>

\* str(n) of an int
IntToText(n) == IF n < 0 THEN <<"-">> \o NatToText(0 - n) ELSE NatToText(n)

\* str(v) as an f-string renders it
Format(v) ==
    CASE v.kind = "str" -> v.text
      [] v.kind = "int" -> IntToText(v.num)
      [] v.kind = "NoneType" -> <<"None">>
      [] v.kind = "bool" -> IF v.num = 1 THEN <<"True">> ELSE <<"False">>
      [] v.kind = "slice" ->
            <<"slice(">> \o
            (IF v.parts[1].kind = "int" THEN IntToText(v.parts[1].num) ELSE <<"None">>) \o <<", ">> \o
            (IF v.parts[2].kind = "int" THEN IntToText(v.parts[2].num) ELSE <<"None">>) \o <<", ">> \o
            (IF v.parts[3].kind = "int" THEN IntToText(v.parts[3].num) ELSE <<"None">>) \o <<")">>
      [] OTHER -> <<"<", v.kind, ">">>

\* d[key] = value on a python dict
SetKey(d, key, value) == [k \in (DOMAIN d) \cup {key} |-> IF k = key THEN value ELSE d[k]]

EmptyDict == [k \in {} |-> PyNone]

\* -------------------------------------------------------- State, StateSet
\* State(state_type=..., state_def=..., comments=...); autoplay keeps the class default
State(state_type, state_def, comments) ==
    [state_type |-> state_type, state_def |-> state_def, comments |-> comments, autoplay |-> FALSE]

\* StateSet(autoplay) for autoplay a bool or None
StateSet_init(autoplay) == [states |-> <<>>, autoplay |-> PyNone]

add_state_front(S, state) == [S EXCEPT !.states = <<state>> \o @]

add_state_twice(S, state) == [S EXCEPT !.states = Append(Append(@, state), state)]

\* StateSet.add_state(state), state a State
add_state(S, state) == [S EXCEPT !.states = Append(@, state)]

RECURSIVE add_states(_, _)
\* the add_state calls one operation makes, in order
add_states(S, sts) ==
    IF sts = <<>> THEN S ELSE add_states(add_state(S, Head(sts)), Tail(sts))

\* StateSet.add_comment(comments)
add_comment(S, comments) == add_state(S, State("comment", PyNone, comments))

\* the State object a host passes
StateOf(x) == State("comment", PyNone, x.text)

\* StateSet.add_state(x) for any x: the assert raises AssertionError, with the
\* ARgorithmError as its message, when x is no State
StateSet_add_state(S, x) ==
    IF x.kind = "State" THEN [err |-> "", S |-> add_state(S, StateOf(x))]
    ELSE [err |-> "AssertionError", S |-> S]

\* -------------------------------------------------------------------- heap
FreeCell == [cls |-> "free", d |-> EmptyDict, born |-> 0, init |-> PyNone, writes |-> <<>>]

\* an object of class cls with instance dict d; born, init and writes are its
\* history: the log length when its constructor returned, the content it was
\* constructed with, and the values written or fragments appended to it since
Cell(cls, d, born, init) == [cls |-> cls, d |-> d, born |-> born, init |-> init, writes |-> <<>>]

Call(op, self, arg, ret, err) == [op |-> op, self |-> self, arg |-> arg, ret |-> ret, err |-> err]

\* ---------------------------------------------------------------- Variable
\* a variable_highlight that reports the value held before the write
Highlight_stale(d, last_value) ==
    ("id" :> d["_id"]) @@ ("variable_name" :> d["name"]) @@ ("value" :> last_value)

Highlight_always_last(d, last_value) ==
    ("id" :> d["_id"]) @@ ("variable_name" :> d["name"]) @@ ("value" :> d["value"])
        @@ ("last_value" :> last_value)

\* the state_def of variable_highlight, d the instance dict after the write
Highlight_def(d, last_value) ==
    LET base == ("id" :> d["_id"]) @@ ("variable_name" :> d["name"]) @@ ("value" :> d["value"])
    IN  IF last_value # PyNone THEN base @@ ("last_value" :> last_value) ELSE base

\* Variable.__setattr__(key, value): the new instance dict and the states it adds
Variable_setattr(d, key, value) ==
    LET armed == key = "value" /\ d["_Variable__flag"] = PyBool(TRUE)
        last_value == IF armed THEN d["value"] ELSE PyNone
        d1 == SetKey(d, key, value)
    IN  IF armed
        THEN [d |-> d1, out |-> <<State("variable_highlight", Highlight_def(d1, last_value), <<>>)>>]
        ELSE IF key = "value"
             THEN [d |-> SetKey(d1, "_Variable__flag", PyBool(TRUE)), out |-> <<>>]
             ELSE [d |-> d1, out |-> <<>>]

\* Variable.__init__ up to the add_state call, for the object at address a
Variable_init(a, name, algoArg, value) ==
    LET s1 == Variable_setattr(EmptyDict, "algo", algoArg)
        s2 == Variable_setattr(s1.d, "name", name)
        s3 == Variable_setattr(s2.d, "_Variable__flag", PyBool(FALSE))
        s4 == Variable_setattr(s3.d, "value", value)
        s5 == Variable_setattr(s4.d, "_id", PyStr(IntToText(a)))
        state_def == ("id" :> s5.d["_id"]) @@ ("variable_name" :> name) @@ ("value" :> value)
    IN  [d |-> s5.d,
         out |-> s1.out \o s2.out \o s3.out \o s4.out \o s5.out
                    \o <<State("variable_declare", state_def, <<>>)>>]

VarNames == {PyStr(<<"x">>)}
VarValues == {PyNone, PyInt(0), PyInt(1)}
AlgoArgs == {AlgoRef, PyNone}
CommentTexts == {<<"n", "b">>}

\* v = Variable(name, algoArg, value)
NewVariable(a, name, algoArg, value) ==
    /\ calls < limit
    /\ heap[a].cls = "free"
    /\ LET r == Variable_init(a, name, algoArg, value)
       IN  IF algoArg.kind = "StateSet"
           THEN /\ algo' = add_states(algo, r.out)
                /\ heap' = [heap EXCEPT ![a] = Cell("Variable", r.d, Len(algo'.states), value)]
                /\ lastCall' = Call("Variable", a, PyArgs(<<name, algoArg, value>>), PyRef("Variable", a), "")
           ELSE \* self.algo.add_state fails; the half-built object is dropped
                /\ UNCHANGED <<algo, heap>>
                /\ lastCall' = Call("Variable", 0, PyArgs(<<name, algoArg, value>>), PyNone, "AttributeError")
    /\ calls' = calls + 1
    /\ UNCHANGED <<iters, limit>>

\* v.value = value
SetValue(a, value) ==
    /\ calls < limit
    /\ heap[a].cls = "Variable"
    /\ LET r == Variable_setattr(heap[a].d, "value", value)
       IN  /\ algo' = add_states(algo, r.out)
           /\ heap' = [heap EXCEPT ![a].d = r.d, ![a].writes = Append(@, value)]
    /\ lastCall' = Call("setvalue", a, value, PyNone, "")
    /\ calls' = calls + 1
    /\ UNCHANGED <<iters, limit>>

\* algo.add_comment(text)
AddComment(text) ==
    /\ calls < limit
    /\ algo' = add_comment(algo, text)
    /\ lastCall' = Call("add_comment", 0, PyStr(text), PyNone, "")
    /\ calls' = calls + 1
    /\ UNCHANGED <<heap, iters, limit>>

\* ------------------------------------------------------------- StringState
\* StringState.string_declare(body, comments), gen the StringState(name, _id)
string_declare(gen, body, comments) ==
    State("string_declare",
          ("id" :> gen.parts[2]) @@ ("variable_name" :> gen.parts[1]) @@ ("body" :> body),
          comments)

\* StringState.string_iter(body, index, comments)
string_iter(gen, body, index, comments) ==
    State("string_iter",
          ("id" :> gen.parts[2]) @@ ("variable_name" :> gen.parts[1]) @@ ("body" :> body)
              @@ ("index" :> index),
          comments)

string_append_no_element(gen, body, element, comments) ==
    State("string_append",
          ("id" :> gen.parts[2]) @@ ("variable_name" :> gen.parts[1]) @@ ("body" :> body),
          comments)

\* StringState.string_append(body, element, comments)
string_append(gen, body, element, comments) ==
    State("string_append",
          ("id" :> gen.parts[2]) @@ ("variable_name" :> gen.parts[1]) @@ ("body" :> body)
              @@ ("element" :> element),
          comments)

\* StringState(name, _id)
StringState_init(name, _id) ==
    [kind |-> "StringState", text |-> <<>>, num |-> 0, parts |-> <<name, _id>>]

\* ------------------------------------------------------------------ String
\* what a call gives back: the exception raised ("" when it returns), the
\* instance dict of self afterwards, the states added, the value returned
Outcome(err, d, out, ret) ==
    [err |-> err, d |-> d, out |-> out, ret |-> ret, child |-> EmptyDict]

\* the same, for a call that constructed a String with instance dict c
WithChild(o, c) == [o EXCEPT !.child = c]

\* String.__init__ without its check of the body
init_unchecked_body(a, name, algoArg, body, comments) ==
    IF name.kind # "str" THEN Outcome("ARgorithmError", EmptyDict, <<>>, PyNone)
    ELSE LET _id == PyStr(IntToText(a))
             d1 == SetKey(SetKey(EmptyDict, "_id", _id), "state_generator", StringState_init(name, _id))
         IN  IF algoArg.kind # "StateSet" THEN Outcome("TypeError", d1, <<>>, PyNone)
             ELSE LET d3 == SetKey(SetKey(d1, "algo", algoArg), "body", body)
                  IN  Outcome("", d3,
                              <<string_declare(d3["state_generator"], d3["body"], comments)>>,
                              PyRef("String", a))

\* String.__init__(name, algo, body, comments) for the object at address a
String_init(a, name, algoArg, body, comments) ==
    IF name.kind # "str" THEN Outcome("ARgorithmError", EmptyDict, <<>>, PyNone)
    ELSE LET _id == PyStr(IntToText(a))
             d1 == SetKey(SetKey(EmptyDict, "_id", _id), "state_generator", StringState_init(name, _id))
         IN  IF algoArg.kind # "StateSet" THEN Outcome("TypeError", d1, <<>>, PyNone)
             ELSE LET d2 == SetKey(d1, "algo", algoArg)
                  IN  IF body.kind # "str" THEN Outcome("ARgorithmError", d2, <<>>, PyNone)
                      ELSE LET d3 == SetKey(d2, "body", body)
                           IN  Outcome("", d3,
                                       <<string_declare(d3["state_generator"], d3["body"], comments)>>,
                                       PyRef("String", a))

\* String.__len__()
String_len(d) == PyInt(Len(d["body"].text))

RECURSIVE Walk(_, _, _, _)
\* the characters at positions i, i + step, ... short of stop (positions from 0)
Walk(t, i, stop, step) ==
    IF (step > 0 /\ i < stop) \/ (step < 0 /\ i > stop)
    THEN <<t[i + 1]>> \o Walk(t, i + step, stop, step)
    ELSE <<>>

\* t[key] of a str for key a slice with a nonzero step
SliceText(t, key) ==
    LET n == Len(t)
        step == IF key.parts[3].kind = "int" THEN key.parts[3].num ELSE 1
        Adjust(p, dflt) ==
            IF p.kind # "int" THEN dflt
            ELSE IF p.num < 0
                 THEN (IF p.num + n < 0 THEN (IF step < 0 THEN 0 - 1 ELSE 0) ELSE p.num + n)
                 ELSE (IF p.num >= n THEN (IF step < 0 THEN n - 1 ELSE n) ELSE p.num)
        start == Adjust(key.parts[1], IF step < 0 THEN n - 1 ELSE 0)
        stop == Adjust(key.parts[2], IF step < 0 THEN 0 - 1 ELSE n)
    IN  Walk(t, start, stop, step)

\* whether t[key] of a str exists for key an int
InRange(t, n) == (0 - Len(t)) <= n /\ n < Len(t)

\* t[key] of a str for key an int in range
CharAt(t, n) == IF n < 0 THEN t[n + Len(t) + 1] ELSE t[n + 1]

Suffix(name, suffix) == PyStr(name.text \o <<suffix>>)

getitem_silent(d, key, c) ==
    IF key.kind = "slice"
    THEN IF key.parts[3] = PyInt(0) THEN Outcome("ValueError", d, <<>>, PyNone)
         ELSE LET new == String_init(c, Suffix(d["state_generator"].parts[1], "_sub"), d["algo"],
                                     PyStr(SliceText(d["body"].text, key)),
                                     <<"creating new substring for ">> \o Format(key))
              IN  WithChild(Outcome(new.err, d, new.out, new.ret), new.d)
    ELSE IF key.kind # "int" THEN Outcome("TypeError", d, <<>>, PyNone)
         ELSE IF InRange(d["body"].text, key.num)
              THEN Outcome("", d, <<>>, PyStr(<<CharAt(d["body"].text, key.num)>>))
              ELSE Outcome("IndexError", d, <<>>, PyNone)

getitem_logs_parent(d, key, c) ==
    IF key.kind = "slice"
    THEN IF key.parts[3] = PyInt(0) THEN Outcome("ValueError", d, <<>>, PyNone)
         ELSE LET new == String_init(c, Suffix(d["state_generator"].parts[1], "_sub"), d["algo"],
                                     PyStr(SliceText(d["body"].text, key)),
                                     <<"creating new substring for ">> \o Format(key))
              IN  WithChild(Outcome(new.err, d,
                          <<string_iter(d["state_generator"], d["body"], key, <<>>)>> \o new.out,
                          new.ret), new.d)
    ELSE LET state == string_iter(d["state_generator"], d["body"], key,
                                  <<"accessing character at ">> \o Format(key))
         IN  IF key.kind # "int" THEN Outcome("TypeError", d, <<state>>, PyNone)
             ELSE IF InRange(d["body"].text, key.num)
                  THEN Outcome("", d, <<state>>, PyStr(<<CharAt(d["body"].text, key.num)>>))
                  ELSE Outcome("IndexError", d, <<state>>, PyNone)

\* String.__getitem__(key); c is the address a child String would get
String_getitem(d, key, c) ==
    IF key.kind = "slice"
    THEN IF key.parts[3] = PyInt(0) THEN Outcome("ValueError", d, <<>>, PyNone)
         ELSE LET new == String_init(c, Suffix(d["state_generator"].parts[1], "_sub"), d["algo"],
                                     PyStr(SliceText(d["body"].text, key)),
                                     <<"creating new substring for ">> \o Format(key))
              IN  WithChild(Outcome(new.err, d, new.out, new.ret), new.d)
    ELSE LET state == string_iter(d["state_generator"], d["body"], key,
                                  <<"accessing character at ">> \o Format(key))
         IN  \* the state is added before self.body[key] is evaluated
             IF key.kind # "int" THEN Outcome("TypeError", d, <<state>>, PyNone)
             ELSE IF InRange(d["body"].text, key.num)
                  THEN Outcome("", d, <<state>>, PyStr(<<CharAt(d["body"].text, key.num)>>))
                  ELSE Outcome("IndexError", d, <<state>>, PyNone)

setitem_writes(d, key, value) ==
    Outcome("", SetKey(d, "body", value),
            <<string_append(d["state_generator"], value, value, <<>>)>>, PyNone)

\* String.__setitem__(key, value)
String_setitem(d, key, value) == Outcome("ARgorithmError", d, <<>>, PyNone)

\* if isinstance(value, String): value = value.body
BodyOf(value) == IF value.kind = "String" THEN heap[value.num].d["body"] ELSE value

append_old_body(d, value, comments) ==
    LET v == BodyOf(value)
    IN  IF v.kind # "str" THEN Outcome("TypeError", d, <<>>, PyNone)
        ELSE LET d1 == SetKey(d, "body", PyStr(d["body"].text \o v.text))
             IN  Outcome("", d1, <<string_append(d1["state_generator"], d["body"], v, comments)>>, PyNone)

\* String.append(value, comments)
String_append(d, value, comments) ==
    LET v == BodyOf(value)
    IN  \* self.body += value raises for a value that is no str
        IF v.kind # "str" THEN Outcome("TypeError", d, <<>>, PyNone)
        ELSE LET d1 == SetKey(d, "body", PyStr(d["body"].text \o v.text))
             IN  Outcome("", d1, <<string_append(d1["state_generator"], d1["body"], v, comments)>>, PyNone)

add_in_place(d, value, c) ==
    LET app == String_append(d, value, <<>>)
    IN  WithChild(Outcome(app.err, app.d, app.out, PyRef("String", c)), app.d)

\* String.__add__(value); c is the address of the new String
String_add(d, value, c) ==
    LET v == BodyOf(value)
        new == String_init(c, Suffix(d["state_generator"].parts[1], "_super"), d["algo"], d["body"],
                           <<"creating new string with ">> \o Format(v)
                               \o <<" appended to the original string">>)
        app == String_append(new.d, v, <<>>)
    IN  IF new.err # "" THEN Outcome(new.err, d, new.out, PyNone)
        ELSE WithChild(Outcome(app.err, d, new.out \o app.out,
                               IF app.err = "" THEN new.ret ELSE PyNone), app.d)

\* ---------------------------------------------------------- StringIterator
FreeIter ==
    [live |-> FALSE, string |-> 0, index |-> 0, size |-> 0,
     created |-> <<>>, yielded |-> <<>>, emitted |-> <<>>, stopped |-> FALSE]

\* StringIterator(string) for the String at address a with instance dict d;
\* created, yielded, emitted and stopped are its history: the body it was
\* created over, the characters it returned, the log positions of the states
\* its reads added, whether it has raised StopIteration
StringIterator_init(a, d) ==
    [live |-> TRUE, string |-> a, index |-> 0, size |-> String_len(d).num,
     created |-> d["body"].text, yielded |-> <<>>, emitted |-> <<>>, stopped |-> FALSE]

\* an iterator bounded by the length of the body at the time of the read
next_live_bound(it, d) ==
    IF it.index >= String_len(d).num THEN [err |-> "StopIteration", index |-> it.index, out |-> <<>>, ret |-> PyNone]
    ELSE LET r == String_getitem(d, PyInt(it.index), it.string)
         IN  [err |-> r.err, index |-> IF r.err = "" THEN it.index + 1 ELSE it.index,
              out |-> r.out, ret |-> r.ret]

next_no_advance(it, d) ==
    IF it.index = it.size THEN [err |-> "StopIteration", index |-> it.index, out |-> <<>>, ret |-> PyNone]
    ELSE LET r == String_getitem(d, PyInt(it.index), it.string)
         IN  [err |-> r.err, index |-> it.index, out |-> r.out, ret |-> r.ret]

\* StringIterator.__next__(), d the instance dict of its String
StringIterator_next(it, d) ==
    IF it.index = it.size THEN [err |-> "StopIteration", index |-> it.index, out |-> <<>>, ret |-> PyNone]
    ELSE LET r == String_getitem(d, PyInt(it.index), it.string)
         IN  [err |-> r.err, index |-> IF r.err = "" THEN it.index + 1 ELSE it.index,
              out |-> r.out, ret |-> r.ret]

\* ------------------------------------------------------------- operations
\* the arguments a host gives the String constructor: (name, algo, body)
StringArgs ==
    { <<PyStr(<<"s">>), AlgoRef, PyStr(<<"a", "b">>)>>,
      <<PyStr(<<"s">>), AlgoRef, PyStr(<<>>)>>,
      <<PyInt(3), AlgoRef, PyStr(<<"a", "b">>)>>,
      <<PyStr(<<"s">>), PyNone, PyStr(<<"a", "b">>)>>,
      <<PyStr(<<"s">>), AlgoRef, PyInt(5)>>,
      <<PyStr(<<"s">>), PyNone, PyInt(5)>>,
      <<PyInt(3), PyNone, PyInt(5)>> }

IndexKeys == {PyInt(0 - 1), PyInt(0), PyInt(1), PyInt(2)}

\* the keys and values of an indexed assignment
SetKeys == {PyInt(0), PySlice(PyNone, PyNone, PyNone)}
SetValues == {PyStr(<<"c">>), PyInt(7)}

SliceKeys ==
    { PySlice(PyNone, PyNone, PyNone), PySlice(PyInt(1), PyNone, PyNone),
      PySlice(PyNone, PyNone, PyInt(0 - 1)), PySlice(PyInt(0 - 3), PyInt(1), PyInt(2)),
      PySlice(PyNone, PyNone, PyInt(0)) }

\* what a host appends: text, something that is no text, or a live String
Fragments == {PyStr(<<"c">>), PyInt(7)} \cup {PyRef("String", b) : b \in {x \in Addrs : heap[x].cls = "String"}}

\* s = String(name, algoArg, body)
NewString(a, name, algoArg, body) ==
    /\ calls < limit
    /\ heap[a].cls = "free"
    /\ LET r == String_init(a, name, algoArg, body, <<>>)
       IN  /\ algo' = add_states(algo, r.out)
           /\ heap' = IF r.err = ""
                      THEN [heap EXCEPT ![a] = Cell("String", r.d, Len(algo'.states), body)]
                      ELSE heap
           /\ lastCall' = Call("String", IF r.err = "" THEN a ELSE 0, PyArgs(<<name, algoArg, body>>), r.ret, r.err)
    /\ calls' = calls + 1
    /\ UNCHANGED <<iters, limit>>

\* s[key] for key an int
GetItem(a, key) ==
    /\ calls < limit
    /\ heap[a].cls = "String"
    /\ LET r == String_getitem(heap[a].d, key, a)
       IN  /\ algo' = add_states(algo, r.out)
           /\ heap' = [heap EXCEPT ![a].d = r.d]
           /\ lastCall' = Call("getitem", a, key, r.ret, r.err)
    /\ calls' = calls + 1
    /\ UNCHANGED <<iters, limit>>

\* s[key] for key a slice; the child String is allocated at the free address c
GetSlice(a, key, c) ==
    /\ calls < limit
    /\ heap[a].cls = "String"
    /\ heap[c].cls = "free"
    /\ LET r == String_getitem(heap[a].d, key, c)
       IN  /\ algo' = add_states(algo, r.out)
           /\ heap' = IF r.err = ""
                      THEN [heap EXCEPT ![a].d = r.d,
                                        ![c] = Cell("String", r.child, Len(algo'.states), r.child["body"])]
                      ELSE [heap EXCEPT ![a].d = r.d]
           /\ lastCall' = Call("getslice", a, key, r.ret, r.err)
    /\ calls' = calls + 1
    /\ UNCHANGED <<iters, limit>>

\* s[key] = value
SetItem(a, key, value) ==
    /\ calls < limit
    /\ heap[a].cls = "String"
    /\ LET r == String_setitem(heap[a].d, key, value)
       IN  /\ algo' = add_states(algo, r.out)
           /\ heap' = [heap EXCEPT ![a].d = r.d]
           /\ lastCall' = Call("setitem", a, key, r.ret, r.err)
    /\ calls' = calls + 1
    /\ UNCHANGED <<iters, limit>>

\* len(s) that logs the read as an indexed read is logged
Length_logged(a) ==
    /\ calls < limit
    /\ heap[a].cls = "String"
    /\ algo' = add_state(algo, string_iter(heap[a].d["state_generator"], heap[a].d["body"], PyNone, <<>>))
    /\ lastCall' = Call("len", a, PyNone, String_len(heap[a].d), "")
    /\ calls' = calls + 1
    /\ UNCHANGED <<heap, iters, limit>>

\* len(s)
Length(a) ==
    /\ calls < limit
    /\ heap[a].cls = "String"
    /\ lastCall' = Call("len", a, PyNone, String_len(heap[a].d), "")
    /\ calls' = calls + 1
    /\ UNCHANGED <<algo, heap, iters, limit>>

\* s.append(value)
AppendTo(a, value) ==
    /\ calls < limit
    /\ heap[a].cls = "String"
    /\ LET r == String_append(heap[a].d, value, <<>>)
       IN  /\ algo' = add_states(algo, r.out)
           /\ heap' = [heap EXCEPT ![a].d = r.d,
                                   ![a].writes = IF r.err = "" THEN Append(@, BodyOf(value)) ELSE @]
           /\ lastCall' = Call("append", a, value, r.ret, r.err)
    /\ calls' = calls + 1
    /\ UNCHANGED <<iters, limit>>

\* s + value; the new String is allocated at the free address c
Add(a, value, c) ==
    /\ calls < limit
    /\ heap[a].cls = "String"
    /\ heap[c].cls = "free"
    /\ LET r == String_add(heap[a].d, value, c)
       IN  /\ algo' = add_states(algo, r.out)
           /\ heap' = IF r.err = ""
                      THEN [heap EXCEPT ![a].d = r.d,
                                        ![c] = [Cell("String", r.child, Len(algo.states) + 1, heap[a].d["body"])
                                                    EXCEPT !.writes = <<BodyOf(value)>>]]
                      ELSE [heap EXCEPT ![a].d = r.d]
           /\ lastCall' = Call("add", a, value, r.ret, r.err)
    /\ calls' = calls + 1
    /\ UNCHANGED <<iters, limit>>

\* it = iter(s); an iterator is known to the host alone, so the first unused
\* slot stands for any
Iter(i, a) ==
    /\ calls < limit
    /\ ~iters[i].live
    /\ \A j \in 1..(i - 1) : iters[j].live
    /\ heap[a].cls = "String"
    /\ iters' = [iters EXCEPT ![i] = StringIterator_init(a, heap[a].d)]
    /\ lastCall' = Call("iter", a, PyNone, PyRef("StringIterator", i), "")
    /\ calls' = calls + 1
    /\ UNCHANGED <<algo, heap, limit>>

\* next(it)
IterNext(i) ==
    /\ calls < limit
    /\ iters[i].live
    /\ LET it == iters[i]
           r == StringIterator_next(it, heap[it.string].d)
       IN  /\ algo' = add_states(algo, r.out)
           /\ iters' = [iters EXCEPT ![i].index = r.index,
                                     ![i].yielded = IF r.err = "" THEN Append(@, r.ret) ELSE @,
                                     ![i].emitted = @ \o [k \in 1..Len(r.out) |-> Len(algo.states) + k],
                                     ![i].stopped = @ \/ r.err = "StopIteration"]
           /\ lastCall' = Call("next", it.string, PyRef("StringIterator", i), r.ret, r.err)
    /\ calls' = calls + 1
    /\ UNCHANGED <<heap, limit>>

\* the host drops its last reference to the iterator
DiscardIter(i) ==
    /\ calls < limit
    /\ iters[i].live
    /\ iters' = [iters EXCEPT ![i] = FreeIter]
    /\ lastCall' = Call("del", 0, PyRef("StringIterator", i), PyNone, "")
    /\ calls' = calls + 1
    /\ UNCHANGED <<algo, heap, limit>>

\* the host drops its last reference to the object at address a, which is
\* then deallocated: a string an iterator refers to stays alive
Discard(a) ==
    /\ calls < limit
    /\ heap[a].cls # "free"
    /\ \A i \in IterIds : ~(iters[i].live /\ iters[i].string = a)
    /\ heap' = [heap EXCEPT ![a] = FreeCell]
    /\ lastCall' = Call("del", a, PyNone, PyNone, "")
    /\ calls' = calls + 1
    /\ UNCHANGED <<algo, iters, limit>>

\* what a host passes to add_state
StateArgs == {PyState(<<"h">>), PyInt(5)}

\* algo.add_state(x)
AddState(x) ==
    /\ calls < limit
    /\ LET r == StateSet_add_state(algo, x)
       IN  /\ algo' = r.S
           /\ lastCall' = Call("add_state", 0, x, PyNone, r.err)
    /\ calls' = calls + 1
    /\ UNCHANGED <<heap, iters, limit>>

\* --------------------------------------------------------- specifications
InitBase ==
    /\ algo = StateSet_init(PyNone)
    /\ heap = [a \in Addrs |-> FreeCell]
    /\ iters = [i \in IterIds |-> FreeIter]
    /\ lastCall = Call("StateSet", 0, PyNone, AlgoRef, "")
    /\ calls = 0

\* a host program that uses Variables
InitVar == InitBase /\ limit = MaxCallsVar

NextVar ==
    \/ \E a \in Addrs, name \in VarNames, g \in AlgoArgs, v \in VarValues : NewVariable(a, name, g, v)
    \/ \E a \in Addrs, v \in VarValues : SetValue(a, v)
    \/ \E t \in CommentTexts : AddComment(t)
    \/ \E a \in Addrs : Discard(a)

SpecVar == InitVar /\ [][NextVar]_vars

\* a host program that uses Strings
InitStr == InitBase /\ limit = MaxCallsStr

NextStr ==
    \/ \E a \in Addrs, args \in StringArgs : NewString(a, args[1], args[2], args[3])
    \/ \E a \in Addrs, key \in IndexKeys : GetItem(a, key)
    \/ \E a \in Addrs, key \in SliceKeys, c \in Addrs : GetSlice(a, key, c)
    \/ \E a \in Addrs, key \in SetKeys, v \in SetValues : SetItem(a, key, v)
    \/ \E a \in Addrs : Length(a)
    \/ \E a \in Addrs, v \in Fragments : AppendTo(a, v)
    \/ \E a \in Addrs, v \in Fragments, c \in Addrs : Add(a, v, c)
    \/ \E a \in Addrs : Discard(a)

SpecStr == InitStr /\ [][NextStr]_vars

\* a host program that iterates over Strings
IterBodies == {PyStr(<<>>), PyStr(<<"a">>), PyStr(<<"a", "b">>)}

InitIter == InitBase /\ limit = MaxCallsIter

NextIter ==
    \/ \E a \in Addrs, body \in IterBodies : NewString(a, PyStr(<<"s">>), AlgoRef, body)
    \/ \E a \in Addrs, v \in {PyStr(<<"c">>)} : AppendTo(a, v)
    \/ \E i \in IterIds, a \in Addrs : Iter(i, a)
    \/ \E i \in IterIds : IterNext(i)

SpecIter == InitIter /\ [][NextIter]_vars

\* a host program that uses all of it
Init == InitBase /\ limit = MaxCallsAll

Next ==
    \/ \E a \in Addrs, name \in VarNames, g \in AlgoArgs, v \in VarValues : NewVariable(a, name, g, v)
    \/ \E a \in Addrs, v \in VarValues : SetValue(a, v)
    \/ \E t \in CommentTexts : AddComment(t)
    \/ \E a \in Addrs, args \in StringArgs : NewString(a, args[1], args[2], args[3])
    \/ \E a \in Addrs, key \in IndexKeys : GetItem(a, key)
    \/ \E a \in Addrs, key \in SliceKeys, c \in Addrs : GetSlice(a, key, c)
    \/ \E a \in Addrs, key \in SetKeys, v \in SetValues : SetItem(a, key, v)
    \/ \E a \in Addrs : Length(a)
    \/ \E a \in Addrs, v \in Fragments : AppendTo(a, v)
    \/ \E a \in Addrs, v \in Fragments, c \in Addrs : Add(a, v, c)
    \/ \E i \in IterIds, a \in Addrs : Iter(i, a)
    \/ \E i \in IterIds : IterNext(i)
    \/ \E i \in IterIds : DiscardIter(i)
    \/ \E a \in Addrs : Discard(a)
    \/ \E x \in StateArgs : AddState(x)

Spec == Init /\ [][Next]_vars

\* a host program that constructs the StateSet and uses it directly
MaxCallsSet == 5

AutoplayArgs == {PyBool(TRUE), PyBool(FALSE), PyNone}

InitSet ==
    \E autoplay \in AutoplayArgs :
        /\ algo = StateSet_init(autoplay)
        /\ heap = [a \in Addrs |-> FreeCell]
        /\ iters = [i \in IterIds |-> FreeIter]
        /\ lastCall = Call("StateSet", 0, autoplay, AlgoRef, "")
        /\ calls = 0
        /\ limit = MaxCallsSet

NextSet ==
    \/ \E t \in CommentTexts : AddComment(t)
    \/ \E x \in StateArgs : AddState(x)

SpecSet == InitSet /\ [][NextSet]_vars

\* ------------------------------------------------------------------ claims
Log == algo.states

\* the states at positions from..Len(Log) of the log that carry id and have type ty
Carrying(from, id, ty) ==
    SelectSeq(SubSeq(Log, from, Len(Log)),
              LAMBDA s : s.state_type = ty /\ s.state_def["id"] = id)

\* C1: for every live Variable written N times since its construction, the
\* variable_highlight states carrying its id that were appended since its
\* construction are exactly N, in write order; the k-th carries the k-th written
\* value as value and the value held before that write as last_value, and has
\* no last_value exactly when the value held before was None.
C1_Highlights ==
    \A a \in Addrs :
        heap[a].cls = "Variable" =>
            LET c == heap[a]
                hl == Carrying(c.born + 1, c.d["_id"], "variable_highlight")
                held == <<c.init>> \o c.writes
            IN  /\ Len(hl) = Len(c.writes)
                /\ Log[c.born].state_type = "variable_declare"
                /\ \A k \in 1..Len(hl) :
                        /\ hl[k].state_def["value"] = c.writes[k]
                        /\ ("last_value" \in DOMAIN hl[k].state_def) <=> (held[k] # PyNone)
                        /\ (held[k] # PyNone) => hl[k].state_def["last_value"] = held[k]

\* C1 witness: a Variable constructed with None and written 1, 1, None: three
\* highlights, the first without last_value, the second rewriting the same value
C1_Witness ==
    \E a \in Addrs :
        /\ heap[a].cls = "Variable"
        /\ heap[a].init = PyNone
        /\ heap[a].writes = <<PyInt(1), PyInt(1), PyNone>>
        /\ Len(Carrying(heap[a].born + 1, heap[a].d["_id"], "variable_highlight")) = 3

\* the positions of the log whose state carries id
Referencing(id) ==
    {p \in 1..Len(Log) : Log[p].state_type # "comment" /\ Log[p].state_def["id"] = id}

DeclareTypes == {"variable_declare", "string_declare"}

\* C2: for every live tracked value, exactly one declare state carrying its id
\* is in the log, and it precedes every other state that carries that id.
C2_OneDeclareFirst ==
    \A a \in Addrs :
        heap[a].cls # "free" =>
            LET refs == Referencing(heap[a].d["_id"])
                decls == {p \in refs : Log[p].state_type \in DeclareTypes}
            IN  /\ Cardinality(decls) = 1
                /\ \A p \in decls : \A q \in refs : p <= q

\* the text a fragment stands for when the call is made
TextOf(arg) == IF arg.kind = "String" THEN heap[arg.num].d["body"].text ELSE arg.text

\* the log after the step is the log before it followed by exactly n states
Grows(n) == Len(Log') = Len(Log) + n /\ SubSeq(Log', 1, Len(Log)) = Log

\* C3: s.append(v) with v text or a tracked String sets the body to the old
\* body followed by v's text and appends exactly one string_append state whose
\* body is the new body and whose element is the fragment; so a second call
\* with the same argument appends a second state and grows the body again.
C3_Append ==
    [][(lastCall'.op = "append" /\ lastCall'.arg.kind \in {"str", "String"}) =>
            LET a == lastCall'.self
                new == PyStr(heap[a].d["body"].text \o TextOf(lastCall'.arg))
                st == Log'[Len(Log')]
            IN  /\ lastCall'.err = ""
                /\ heap'[a].d["body"] = new
                /\ Grows(1)
                /\ st.state_type = "string_append"
                /\ st.state_def["id"] = heap[a].d["_id"]
                /\ st.state_def["body"] = new
                /\ st.state_def["element"] = PyStr(TextOf(lastCall'.arg))]_vars

\* C3 witness: "ab" after append("c") twice is "abcc", with two string_append states
C3_Witness ==
    \E a \in Addrs :
        /\ heap[a].cls = "String"
        /\ lastCall.op = "append" /\ lastCall.self = a
        /\ heap[a].writes = <<PyStr(<<"c">>), PyStr(<<"c">>)>>
        /\ heap[a].d["body"] = PyStr(<<"a", "b", "c", "c">>)
        /\ Len(Carrying(heap[a].born + 1, heap[a].d["_id"], "string_append")) = 2

\* C4: s[i] for an int i leaves the body alone and appends exactly one
\* string_iter state with index i and the body; for i in range it returns the
\* character at position i (counted from the end when i is negative).
C4_IndexRead ==
    [][(lastCall'.op = "getitem" /\ lastCall'.arg.kind = "int") =>
            LET a == lastCall'.self
                i == lastCall'.arg.num
                t == heap[a].d["body"].text
                st == Log'[Len(Log')]
            IN  /\ heap'[a].d["body"] = heap[a].d["body"]
                /\ Grows(1)
                /\ st.state_type = "string_iter"
                /\ st.state_def["id"] = heap[a].d["_id"]
                /\ st.state_def["index"] = PyInt(i)
                /\ st.state_def["body"] = heap[a].d["body"]
                /\ (0 <= i /\ i < Len(t)) =>
                        lastCall'.err = "" /\ lastCall'.ret = PyStr(<<t[i + 1]>>)
                /\ (i < 0 /\ 0 - i <= Len(t)) =>
                        lastCall'.err = "" /\ lastCall'.ret = PyStr(<<t[Len(t) + i + 1]>>)]_vars

\* C4 witness: "ab"[1] has returned "b" and its string_iter state is the last of the log
C4_Witness ==
    /\ lastCall.op = "getitem" /\ lastCall.arg = PyInt(1) /\ lastCall.err = ""
    /\ lastCall.ret = PyStr(<<"b">>)
    /\ Log[Len(Log)].state_type = "string_iter"
    /\ Log[Len(Log)].state_def["body"] = PyStr(<<"a", "b">>)

\* C5: s + v with v text or a tracked String appends exactly two states, the
\* string_declare of a new String named <name>_super with s's body, then its
\* string_append with body s's body + v and element v; it returns that String,
\* s is unchanged and neither state carries the id of s or of v.
C5_Add ==
    [][(lastCall'.op = "add" /\ lastCall'.arg.kind \in {"str", "String"}) =>
            LET a == lastCall'.self
                old == heap[a].d["body"]
                frag == PyStr(TextOf(lastCall'.arg))
                n == Len(Log)
                c == lastCall'.ret.num
            IN  /\ lastCall'.err = "" /\ lastCall'.ret.kind = "String"
                /\ Grows(2)
                /\ Log'[n + 1].state_type = "string_declare"
                /\ Log'[n + 1].state_def["variable_name"]
                        = PyStr(heap[a].d["state_generator"].parts[1].text \o <<"_super">>)
                /\ Log'[n + 1].state_def["body"] = old
                /\ Log'[n + 2].state_type = "string_append"
                /\ Log'[n + 2].state_def["body"] = PyStr(old.text \o frag.text)
                /\ Log'[n + 2].state_def["element"] = frag
                /\ heap'[c].cls = "String"
                /\ heap'[c].d["body"] = PyStr(old.text \o frag.text)
                /\ \A k \in {n + 1, n + 2} :
                        /\ Log'[k].state_def["id"] = heap'[c].d["_id"]
                        /\ Log'[k].state_def["id"] # heap[a].d["_id"]
                        /\ lastCall'.arg.kind = "String" =>
                                Log'[k].state_def["id"] # heap[lastCall'.arg.num].d["_id"]
                /\ heap'[a] = heap[a]]_vars

\* C5 witness: "ab" + "c" has returned a String "abc" and "ab" is still "ab"
C5_Witness ==
    \E a \in Addrs :
        /\ lastCall.op = "add" /\ lastCall.self = a /\ lastCall.err = ""
        /\ heap[a].d["body"] = PyStr(<<"a", "b">>)
        /\ heap[lastCall.ret.num].d["body"] = PyStr(<<"a", "b", "c">>)
        /\ Log[Len(Log)].state_type = "string_append"

RECURSIVE Reverse(_)
Reverse(t) == IF t = <<>> THEN <<>> ELSE Append(Reverse(Tail(t)), Head(t))

\* what python gives for t[key], for the slices of SliceKeys with a step
Sliced(t, key) ==
    CASE key = PySlice(PyNone, PyNone, PyNone) -> t
      [] key = PySlice(PyInt(1), PyNone, PyNone) -> IF t = <<>> THEN <<>> ELSE Tail(t)
      [] key = PySlice(PyNone, PyNone, PyInt(0 - 1)) -> Reverse(t)
      [] key = PySlice(PyInt(0 - 3), PyInt(1), PyInt(2)) ->
            IF Len(t) \in 1..3 THEN <<t[1]>> ELSE <<>>

\* C6: s[key] for a slice that python accepts leaves s alone and appends
\* exactly one state, the string_declare of a new String named <name>_sub
\* whose body is the sliced text; that state does not carry the id of s.
C6_Slice ==
    [][(lastCall'.op = "getslice" /\ lastCall'.arg.parts[3] # PyInt(0)) =>
            LET a == lastCall'.self
                st == Log'[Len(Log')]
                c == lastCall'.ret.num
                body == PyStr(Sliced(heap[a].d["body"].text, lastCall'.arg))
            IN  /\ lastCall'.err = "" /\ lastCall'.ret.kind = "String"
                /\ heap'[a] = heap[a]
                /\ Grows(1)
                /\ st.state_type = "string_declare"
                /\ st.state_def["variable_name"]
                        = PyStr(heap[a].d["state_generator"].parts[1].text \o <<"_sub">>)
                /\ st.state_def["body"] = body
                /\ st.state_def["id"] # heap[a].d["_id"]
                /\ st.state_def["id"] = heap'[c].d["_id"]
                /\ heap'[c].cls = "String" /\ heap'[c].d["body"] = body]_vars

\* C6 witness: "ab"[1:] has returned a String "b" declared by the last state
C6_Witness ==
    \E a \in Addrs :
        /\ lastCall.op = "getslice" /\ lastCall.self = a /\ lastCall.err = ""
        /\ lastCall.arg = PySlice(PyInt(1), PyNone, PyNone)
        /\ heap[a].d["body"] = PyStr(<<"a", "b">>)
        /\ heap[lastCall.ret.num].d["body"] = PyStr(<<"b">>)
        /\ Log[Len(Log)].state_type = "string_declare"
        /\ Log[Len(Log)].state_def["body"] = PyStr(<<"b">>)

IterStates(id) == {p \in Referencing(id) : Log[p].state_type = "string_iter"}

\* C7: an iterator requested over a String of length N starts at position 0;
\* what it has returned is the first characters of that String in order, one
\* string_iter state per character with indices 0, 1, ... in log order, never
\* more than N of them; it raises StopIteration only once N were returned, and
\* two iterators over one String each add their own states.
C7_Iteration ==
    \A i \in IterIds :
        iters[i].live =>
            LET it == iters[i]
                id == heap[it.string].d["_id"]
            IN  /\ it.size = Len(it.created)
                /\ it.index = Len(it.yielded)
                /\ Len(it.emitted) = Len(it.yielded)
                /\ Len(it.yielded) <= it.size
                /\ it.stopped => Len(it.yielded) = it.size
                /\ \A k \in 1..Len(it.yielded) :
                        /\ it.yielded[k] = PyStr(<<it.created[k]>>)
                        /\ it.emitted[k] \in IterStates(id)
                        /\ Log[it.emitted[k]].state_def["index"] = PyInt(k - 1)
                        /\ k > 1 => it.emitted[k - 1] < it.emitted[k]
                /\ \A j \in IterIds \ {i} :
                        iters[j].live =>
                            \A k \in 1..Len(it.emitted), m \in 1..Len(iters[j].emitted) :
                                it.emitted[k] # iters[j].emitted[m]

\* C7 witness: "ab" iterated to the end by one iterator, which has returned
\* "a", "b" and then raised StopIteration, leaving two string_iter states; a
\* second iterator over it has been handed out and stands at position 0
C7_Witness ==
    \E a \in Addrs, i \in IterIds, j \in IterIds :
        /\ i # j /\ iters[i].live /\ iters[j].live
        /\ iters[i].string = a /\ iters[j].string = a
        /\ heap[a].d["body"] = PyStr(<<"a", "b">>)
        /\ iters[i].stopped
        /\ iters[i].yielded = <<PyStr(<<"a">>), PyStr(<<"b">>)>>
        /\ iters[j].index = 0
        /\ Cardinality(IterStates(heap[a].d["_id"])) = 2

\* C9: the log before every operation is a prefix of the log after it.
C9_AppendOnly ==
    [][Len(Log) <= Len(Log') /\ \A p \in 1..Len(Log) : Log'[p] = Log[p]]_vars

\* C9 witness: a log of three states left by a Variable, a comment and a String
C9_Witness ==
    /\ Len(Log) = 3
    /\ Log[1].state_type = "variable_declare"
    /\ Log[2].state_type = "comment"
    /\ Log[3].state_type = "string_declare"

\* C10: with Variables and Strings sharing the StateSet, what a call emits
\* goes behind everything earlier calls emitted; a write to a Variable, an
\* append to a String and add_comment each contribute exactly one state, the
\* last of the log when the call returns, carrying the id of the value written.
C10_CallOrder ==
    [][LET n == Len(Log)
           a == lastCall'.self
           new == SubSeq(Log', n + 1, Len(Log'))
       IN  /\ Log' = Log \o new
           /\ lastCall'.op = "setvalue" =>
                /\ Len(new) = 1
                /\ new[1].state_type = "variable_highlight"
                /\ new[1].state_def["id"] = heap[a].d["_id"]
                /\ new[1].state_def["value"] = lastCall'.arg
           /\ (lastCall'.op = "append" /\ lastCall'.err = "") =>
                /\ Len(new) = 1
                /\ new[1].state_type = "string_append"
                /\ new[1].state_def["id"] = heap[a].d["_id"]
           /\ lastCall'.op = "add_comment" =>
                /\ Len(new) = 1
                /\ new[1].state_type = "comment"
                /\ new[1].comments = lastCall'.arg.text]_vars

\* C10 witness: a Variable and a String share the log: the Variable was
\* declared, then the String, then the Variable was written
C10_Witness ==
    \E a \in Addrs, b \in Addrs :
        /\ heap[a].cls = "Variable" /\ heap[b].cls = "String"
        /\ Len(Log) = 3
        /\ Log[1].state_type = "variable_declare" /\ Log[1].state_def["id"] = heap[a].d["_id"]
        /\ Log[2].state_type = "string_declare" /\ Log[2].state_def["id"] = heap[b].d["_id"]
        /\ Log[3].state_type = "variable_highlight" /\ Log[3].state_def["id"] = heap[a].d["_id"]

\* the keys a state_def must have, and those it may have, by state_type
RequiredKeys(ty) ==
    CASE ty = "variable_declare" -> {"id", "variable_name", "value"}
      [] ty = "variable_highlight" -> {"id", "variable_name", "value"}
      [] ty = "string_declare" -> {"id", "variable_name", "body"}
      [] ty = "string_iter" -> {"id", "variable_name", "body", "index"}
      [] ty = "string_append" -> {"id", "variable_name", "body", "element"}

OptionalKeys(ty) == IF ty = "variable_highlight" THEN {"last_value"} ELSE {}

StateTypes ==
    {"variable_declare", "variable_highlight", "string_declare", "string_iter",
     "string_append", "comment"}

\* C11: every state of the log has a state_type of the table; a comment has
\* a null state_def and a text the host gave, any other state a state_def with
\* exactly the keys of its type (last_value being optional in a highlight).
C11_WireShapes ==
    \A p \in 1..Len(Log) :
        LET st == Log[p]
        IN  /\ st.state_type \in StateTypes
            /\ st.state_type = "comment" =>
                    st.state_def = PyNone /\ st.comments \in CommentTexts \cup {<<"h">>}
            /\ st.state_type # "comment" =>
                    /\ RequiredKeys(st.state_type) \subseteq DOMAIN st.state_def
                    /\ DOMAIN st.state_def \subseteq
                            RequiredKeys(st.state_type) \cup OptionalKeys(st.state_type)

\* C11 witness: a log holding a string_declare, a string_append and a comment
C11_Witness ==
    /\ Len(Log) = 3
    /\ Log[1].state_type = "string_declare"
    /\ Log[2].state_type = "string_append"
    /\ DOMAIN Log[2].state_def = {"id", "variable_name", "body", "element"}
    /\ Log[3].state_type = "comment" /\ Log[3].state_def = PyNone

\* C12: add_state(x) with x a State appends x as the last entry and grows the
\* log by one; with x no State it raises ARgorithmError and leaves the log alone.
C12_AddState ==
    [][lastCall'.op = "add_state" =>
            IF lastCall'.arg.kind = "State"
            THEN /\ lastCall'.err = ""
                 /\ Grows(1)
                 /\ Log'[Len(Log')] = StateOf(lastCall'.arg)
            ELSE /\ lastCall'.err = "ARgorithmError"
                 /\ algo' = algo]_vars

BadStateSetCall(c) ==
    /\ c.op \in {"Variable", "String"}
    /\ c.arg.parts[2].kind # "StateSet"
    /\ c.arg.parts[1].kind = "str"
    /\ c.op = "String" => c.arg.parts[3].kind = "str"

\* C14: Variable(name, algo, value) or String(name, algo, body) with an algo
\* that is no StateSet raises ARgorithmError and appends no state.
C14_InvalidStateSet ==
    [][BadStateSetCall(lastCall') =>
            lastCall'.err = "ARgorithmError" /\ algo' = algo]_vars

StringOps == {"getitem", "getslice", "setitem", "append", "add"}

\* C15: a String operation that raises leaves the log and the body of the
\* String as they were before the call.
C15_FailedCallAtomic ==
    [][(lastCall'.op \in StringOps /\ lastCall'.err # "") =>
            /\ algo' = algo
            /\ heap'[lastCall'.self].d["body"] = heap[lastCall'.self].d["body"]]_vars

\* C16: the id given to a tracked value at construction is carried by no state
\* that was in the log before the construction, so no earlier tracked value,
\* live or discarded, had that id.
C16_IdsNeverReused ==
    [][\A a \in Addrs :
            (heap[a].cls = "free" /\ heap'[a].cls # "free") =>
                Referencing(heap'[a].d["_id"]) = {}]_vars

RECURSIVE TotalLen(_)
\* the summed length of a sequence of str values
TotalLen(vs) == IF vs = <<>> THEN 0 ELSE Len(Head(vs).text) + TotalLen(Tail(vs))

\* C17: len(s) returns the length of the live body, which is the length of the
\* body s was constructed with plus the lengths of everything appended since,
\* and changes neither the log nor any tracked value.
C17_Length ==
    [][lastCall'.op = "len" =>
            LET c == heap[lastCall'.self]
            IN  /\ lastCall'.err = ""
                /\ lastCall'.ret = PyInt(Len(c.d["body"].text))
                /\ lastCall'.ret.num = Len(c.init.text) + TotalLen(c.writes)
                /\ algo' = algo
                /\ heap' = heap]_vars

\* C17 witness: len(s) returned 3 for an s constructed as "ab" and appended to
\* once
C17_Witness ==
    /\ lastCall.op = "len" /\ lastCall.ret = PyInt(3)
    /\ heap[lastCall.self].init = PyStr(<<"a", "b">>)
    /\ Len(heap[lastCall.self].writes) = 1
    /\ Len(Log) = 2

\* C18: right after StateSet(autoplay) the autoplay field equals the argument
\* and the log is empty.
C18_Autoplay ==
    lastCall.op = "StateSet" =>
        algo.autoplay = lastCall.arg /\ algo.states = <<>>

\* C19: next on an iterator created over a body of N characters that has
\* returned fewer than N returns the next character of that creation-time
\* body and appends one string_iter state carrying the String's id, the read
\* position and the body the String has at the time of the read, whatever was
\* appended to the String in between; once N were returned it raises
\* StopIteration and appends nothing, every time.
C19_FixedBound ==
    [][lastCall'.op = "next" =>
            LET i == lastCall'.arg.num
                it == iters[i]
                d == heap[it.string].d
                st == Log'[Len(Log')]
            IN  IF it.index < Len(it.created)
                THEN /\ lastCall'.err = ""
                     /\ lastCall'.ret = PyStr(<<it.created[it.index + 1]>>)
                     /\ iters'[i].index = it.index + 1
                     /\ Grows(1)
                     /\ st.state_type = "string_iter"
                     /\ st.state_def["id"] = d["_id"]
                     /\ st.state_def["index"] = PyInt(it.index)
                     /\ st.state_def["body"] = d["body"]
                ELSE /\ lastCall'.err = "StopIteration"
                     /\ iters'[i].index = it.index
                     /\ algo' = algo]_vars

\* C19 witness: an iterator created over "a" has, after "c" was appended to the
\* String, returned "a" with a string_iter state whose body is "ac", and then
\* raised StopIteration
C19_Witness ==
    \E i \in IterIds :
        /\ iters[i].live /\ iters[i].stopped
        /\ iters[i].created = <<"a">>
        /\ iters[i].yielded = <<PyStr(<<"a">>)>>
        /\ heap[iters[i].string].d["body"] = PyStr(<<"a", "c">>)
        /\ Log[iters[i].emitted[1]].state_def["body"] = PyStr(<<"a", "c">>)
        /\ lastCall.op = "next" /\ lastCall.err = "StopIteration"

\* the last position of the log holding a state that carries id
LastOf(id) == CHOOSE p \in Referencing(id) : \A q \in Referencing(id) : q <= p

\* C20: for every live tracked value some state carries its id, and the last
\* such state has as body (String) or value (Variable) the body or value the
\* tracked value holds now.
C20_LogReflectsContent ==
    \A a \in Addrs :
        heap[a].cls # "free" =>
            LET id == heap[a].d["_id"]
            IN  /\ Referencing(id) # {}
                /\ heap[a].cls = "String" =>
                        Log[LastOf(id)].state_def["body"] = heap[a].d["body"]
                /\ heap[a].cls = "Variable" =>
                        Log[LastOf(id)].state_def["value"] = heap[a].d["value"]

\* C20 witness: a Variable written since its construction, whose last state is
\* a variable_highlight with the value 1 it holds, next to a live String
C20_Witness ==
    \E a \in Addrs, b \in Addrs :
        /\ heap[a].cls = "Variable" /\ heap[b].cls = "String"
        /\ heap[a].init = PyInt(0)
        /\ heap[a].d["value"] = PyInt(1)
        /\ Log[LastOf(heap[a].d["_id"])].state_type = "variable_highlight"

====
